---- MODULE Spec2Model ----
(***************************************************************************)
(* Gesture-driven particle scene: the gesture classifier                   *)
(* (src/services/gestureRecognition.ts), the App component that feeds it   *)
(* (src/App.tsx) and the ThreeScene component that builds the particle     *)
(* field and runs the per-frame physics (src/components/ThreeScene.tsx).   *)
(*                                                                         *)
(* JavaScript numbers are modelled in fixed point: one model unit is       *)
(* 1/Unit, and every product that leaves the grid is rounded to nearest.   *)
(***************************************************************************)
EXTENDS Integers, Sequences, FiniteSets, TLC

\* ------------------------------------------------------------------------
\* Number representation
\* ------------------------------------------------------------------------

\* resolution of the fixed-point grid: the value 1.0
Unit == 1000

\* a / b rounded to the nearest integer (b > 0), halves rounded up
RoundDiv(a, b) == (2 * a + b) \div (2 * b)

Min(a, b) == IF a < b THEN a ELSE b

Max(a, b) == IF a > b THEN a ELSE b

Abs(a) == IF a < 0 THEN -a ELSE a

\* ------------------------------------------------------------------------
\* src/constants.ts
\* ------------------------------------------------------------------------

MIN_Z == 5 * Unit

MAX_Z == 40 * Unit

DEFAULT_Z == 20 * Unit

PULL_ACCELERATION == Unit \div 10

OK_SCALE_MULTIPLIER == (5 * Unit) \div 2

WRIST == 0

THUMB_TIP == 4

INDEX_PIP == 6

INDEX_TIP == 8

MIDDLE_MCP == 9

MIDDLE_PIP == 10

MIDDLE_TIP == 12

RING_PIP == 14

RING_TIP == 16

PINKY_PIP == 18

PINKY_TIP == 20

\* HAND_INDICES[`${fingerName}_TIP`] and HAND_INDICES[`${fingerName}_PIP`]
TipIndex(fingerName) ==
  CASE fingerName = "INDEX" -> INDEX_TIP
    [] fingerName = "MIDDLE" -> MIDDLE_TIP
    [] fingerName = "RING" -> RING_TIP
    [] fingerName = "PINKY" -> PINKY_TIP

PipIndex(fingerName) ==
  CASE fingerName = "INDEX" -> INDEX_PIP
    [] fingerName = "MIDDLE" -> MIDDLE_PIP
    [] fingerName = "RING" -> RING_PIP
    [] fingerName = "PINKY" -> PINKY_PIP

\* ------------------------------------------------------------------------
\* enum HandGesture
\* ------------------------------------------------------------------------

NONE == "NONE"

FIST == "FIST"

OPEN_PALM == "OPEN_PALM"

OK_SIGN == "OK_SIGN"

HandGesture == {NONE, FIST, OPEN_PALM, OK_SIGN}

\* ------------------------------------------------------------------------
\* Values of the JavaScript runtime
\* ------------------------------------------------------------------------

\* a JavaScript array value: null (or undefined), or the items it holds
Null == [isNull |-> TRUE, items |-> <<>>]

Array(items) == [isNull |-> FALSE, items |-> items]

Length(a) == Len(a.items)

\* the outcome of a call that threw (reading .x of undefined)
TypeError == "TypeError"

\* a cell nothing has been written to yet
Unset == "unset"

\* ------------------------------------------------------------------------
\* src/services/gestureRecognition.ts
\* ------------------------------------------------------------------------

\* landmarks[i] of a JavaScript array (0-based); undefined past the end
At(landmarks, i) == IF i < Length(landmarks) THEN landmarks.items[i + 1] ELSE Null

\* largest r in lo..hi with r * r <= n
RECURSIVE SqrtSearch(_, _, _)
SqrtSearch(n, lo, hi) ==
  IF lo >= hi THEN lo
  ELSE LET mid == (lo + hi + 1) \div 2
       IN  IF mid * mid <= n THEN SqrtSearch(n, mid, hi)
           ELSE SqrtSearch(n, lo, mid - 1)

\* Math.sqrt of n / Unit^2, in units, rounded to nearest
Sqrt(n) ==
  LET r == SqrtSearch(n, 0, 2 * Unit)
  IN  IF n - r * r > r THEN r + 1 ELSE r

\* Math.sqrt(Math.pow(p1.x - p2.x, 2) + Math.pow(p1.y - p2.y, 2))
getDistance(p1, p2) ==
  Sqrt((p1.x - p2.x) * (p1.x - p2.x) + (p1.y - p2.y) * (p1.y - p2.y))

isFingerExtended(landmarks, fingerName) ==
  LET wrist == At(landmarks, WRIST)
      tip == At(landmarks, TipIndex(fingerName))
      pip == At(landmarks, PipIndex(fingerName))
  IN  getDistance(wrist, tip) > getDistance(wrist, pip)

\* the pinch threshold 0.05 of the OK sign
OK_PINCH_THRESHOLD == Unit \div 20

\* the guard of analyzeGesture's first line
IsEmptyFrame(landmarks) == landmarks.isNull \/ Length(landmarks) = 0

\* analyzeGestureBody with the open-palm and fist checks ahead of the OK sign
analyzeGesturePalmFirst(landmarks) ==
  LET indexExtended == isFingerExtended(landmarks, "INDEX")
      middleExtended == isFingerExtended(landmarks, "MIDDLE")
      ringExtended == isFingerExtended(landmarks, "RING")
      pinkyExtended == isFingerExtended(landmarks, "PINKY")
      thumbIndexDist == getDistance(At(landmarks, THUMB_TIP), At(landmarks, INDEX_TIP))
  IN  IF indexExtended /\ middleExtended /\ ringExtended /\ pinkyExtended
        THEN OPEN_PALM
      ELSE IF ~indexExtended /\ ~middleExtended /\ ~ringExtended /\ ~pinkyExtended
        THEN FIST
      ELSE IF thumbIndexDist < OK_PINCH_THRESHOLD /\ middleExtended /\ ringExtended
           /\ pinkyExtended
        THEN OK_SIGN
      ELSE NONE

\* analyzeGestureBody whose OK sign looks at the pinch (strict or not) alone
\* or also at the three other fingers
analyzeGestureWith(landmarks, inclusive, pinchAlone) ==
  LET indexExtended == isFingerExtended(landmarks, "INDEX")
      middleExtended == isFingerExtended(landmarks, "MIDDLE")
      ringExtended == isFingerExtended(landmarks, "RING")
      pinkyExtended == isFingerExtended(landmarks, "PINKY")
      thumbIndexDist == getDistance(At(landmarks, THUMB_TIP), At(landmarks, INDEX_TIP))
      pinched == IF inclusive THEN thumbIndexDist <= OK_PINCH_THRESHOLD
                 ELSE thumbIndexDist < OK_PINCH_THRESHOLD
  IN  IF pinched /\ (pinchAlone \/ (middleExtended /\ ringExtended /\ pinkyExtended))
        THEN OK_SIGN
      ELSE IF ~indexExtended /\ ~middleExtended /\ ~ringExtended /\ ~pinkyExtended
        THEN FIST
      ELSE IF indexExtended /\ middleExtended /\ ringExtended /\ pinkyExtended
        THEN OPEN_PALM
      ELSE NONE

\* analyzeGestureBody that takes any pinch for the OK sign
analyzeGesturePinchAlone(landmarks) == analyzeGestureWith(landmarks, FALSE, TRUE)

\* analyzeGestureBody whose pinch includes a distance of exactly 0.05
analyzeGesturePinchInclusive(landmarks) == analyzeGestureWith(landmarks, TRUE, FALSE)

\* the classification proper, for a frame that holds every joint it reads
analyzeGestureBody(landmarks) ==
  LET thumbTip == At(landmarks, THUMB_TIP)
      indexTip == At(landmarks, INDEX_TIP)
      indexExtended == isFingerExtended(landmarks, "INDEX")
      middleExtended == isFingerExtended(landmarks, "MIDDLE")
      ringExtended == isFingerExtended(landmarks, "RING")
      pinkyExtended == isFingerExtended(landmarks, "PINKY")
      thumbIndexDist == getDistance(thumbTip, indexTip)
  IN  IF thumbIndexDist < OK_PINCH_THRESHOLD /\ middleExtended /\ ringExtended
           /\ pinkyExtended
        THEN OK_SIGN
      ELSE IF ~indexExtended /\ ~middleExtended /\ ~ringExtended /\ ~pinkyExtended
        THEN FIST
      ELSE IF indexExtended /\ middleExtended /\ ringExtended /\ pinkyExtended
        THEN OPEN_PALM
      ELSE NONE

\* analyzeGesture without its first line: null and empty frames are read
analyzeGestureUnguarded(landmarks) ==
  IF landmarks.isNull \/ Length(landmarks) <= PINKY_TIP THEN TypeError
  ELSE analyzeGestureBody(landmarks)

\* analyzeGesture: NONE for a null or empty frame; a frame shorter than the
\* joints read makes landmarks[i] undefined and the read of its .x throws
analyzeGesture(landmarks) ==
  IF IsEmptyFrame(landmarks) THEN NONE
  ELSE IF Length(landmarks) <= PINKY_TIP THEN TypeError
  ELSE analyzeGestureBody(landmarks)

\* the remap domain [0.1, 0.5] of estimateHandProximity
PALM_FAR == Unit \div 10

PALM_SPAN == (4 * Unit) \div 10

\* estimateHandProximity without the upper clamp
estimateHandProximityOpen(landmarks) ==
  Max(RoundDiv((getDistance(At(landmarks, WRIST), At(landmarks, MIDDLE_MCP))
                  - PALM_FAR) * Unit, PALM_SPAN), 0)

\* Math.min(Math.max((palmSize - 0.1) / 0.4, 0), 1)
estimateHandProximity(landmarks) ==
  LET wrist == At(landmarks, WRIST)
      middleFingerMCP == At(landmarks, MIDDLE_MCP)
      palmSize == getDistance(wrist, middleFingerMCP)
  IN  Min(Max(RoundDiv((palmSize - PALM_FAR) * Unit, PALM_SPAN), 0), Unit)

\* ------------------------------------------------------------------------
\* Landmark frames the pose source can deliver
\* ------------------------------------------------------------------------

Pt(x, y) == [x |-> x, y |-> y]

Fingers == <<"INDEX", "MIDDLE", "RING", "PINKY">>

\* the wrist, and a joint no operation reads
WristPoint == Pt(500, 900)

RestPoint == Pt(500, 800)

\* the column each finger stands in
FingerColumn(k) == <<420, 500, 560, 620>>[k]

\* PIP joint of finger k
PipPoint(k) == Pt(FingerColumn(k), 600)

\* fingertip of finger k: beyond the PIP joint, between it and the wrist, or
\* as far from the wrist as the PIP joint (its mirror image)
TipPoint(k, pose) ==
  CASE pose = "extended" -> Pt(FingerColumn(k), 400)
    [] pose = "curled" -> Pt(FingerColumn(k), 700)
    [] pose = "level" -> Pt(1000 - FingerColumn(k), 600)

\* the poses each finger takes
Poses(k) == IF k <= 2 THEN {"extended", "curled", "level"} ELSE {"extended", "curled"}

PoseChoices == {poses \in [1..4 -> {"extended", "curled", "level"}] :
                  \A k \in 1..4 : poses[k] \in Poses(k)}

\* thumb tip relative to the index tip: 0.02, exactly 0.05 and 0.3 away
ThumbOffsets == {Pt(20, 0), Pt(30, 40), Pt(-300, 0)}

\* wrist to middle-MCP distances
PalmSizes == {50, 100, 101, 300, 500, 600}

\* the 21-landmark frame of a hand
Frame(poses, thumb, palm) ==
  LET indexTip == TipPoint(1, poses[1])
  IN  Array([i \in 1..(PINKY_TIP + 1) |->
        CASE i - 1 = WRIST -> WristPoint
          [] i - 1 = THUMB_TIP -> Pt(indexTip.x + thumb.x, indexTip.y + thumb.y)
          [] i - 1 = MIDDLE_MCP -> Pt(WristPoint.x, WristPoint.y - palm)
          [] i - 1 = INDEX_PIP -> PipPoint(1)
          [] i - 1 = INDEX_TIP -> indexTip
          [] i - 1 = MIDDLE_PIP -> PipPoint(2)
          [] i - 1 = MIDDLE_TIP -> TipPoint(2, poses[2])
          [] i - 1 = RING_PIP -> PipPoint(3)
          [] i - 1 = RING_TIP -> TipPoint(3, poses[3])
          [] i - 1 = PINKY_PIP -> PipPoint(4)
          [] i - 1 = PINKY_TIP -> TipPoint(4, poses[4])
          [] OTHER -> RestPoint])

FullFrames ==
  {Frame(poses, thumb, palm) :
     poses \in PoseChoices, thumb \in ThumbOffsets, palm \in PalmSizes}

\* a frame cut off after the index fingertip
TruncatedFrame ==
  Array(SubSeq(Frame([k \in 1..4 |-> "extended"], Pt(-300, 0), 300).items,
               1, INDEX_TIP + 1))

FrameInputs == FullFrames \cup {Null, Array(<<>>), TruncatedFrame}

\* one frame per gesture, for the runs that are about the physics
SampleFrames ==
  {Frame([k \in 1..4 |-> "curled"], Pt(-300, 0), 300),
   Frame([k \in 1..4 |-> "extended"], Pt(-300, 0), 300),
   Frame([k \in 1..4 |-> "extended"], Pt(20, 0), 300),
   Frame(<<"extended", "curled", "extended", "curled">>, Pt(-300, 0), 300)}

\* what the pose source hands to onResults: no hand, or the hands it found
Results(hands) == [multiHandLandmarks |-> hands]

NoHandResults == {Results(Null), Results(Array(<<>>))}

\* ------------------------------------------------------------------------
\* State
\* ------------------------------------------------------------------------

VARIABLES
  cameraZ,           \* stateRef.current.cameraZ: the logical camera distance
  velocityZ,         \* stateRef.current.velocityZ
  scatterAmount,     \* stateRef.current.scatterAmount
  flowAmount,        \* stateRef.current.flowAmount
  scaleMultiplier,   \* stateRef.current.scaleMultiplier
  particles,         \* stateRef.current.particles
  cameraPositionZ,   \* cameraRef.current.position.z: the rendered distance
  meshes,            \* meshesRef.current
  latestGestureRef,  \* latestGestureRef.current
  gesture,           \* App's state `gesture`
  gesturePending,    \* the effect on [gesture] has yet to run
  gestureWrites,     \* history: every value setGesture was called with
  uploadedTextures,  \* App's state `uploadedTextures`
  texturesPending,   \* the effect on [uploadedTextures] has yet to run
  results,           \* the results the pose source delivered last
  nResults,          \* how many results the pose source has delivered
  thrown,            \* the last call ended in an uncaught exception
  ticks,             \* how many times animate has run
  tickGesture,       \* animate's local `gesture` in its last run
  held,              \* how many runs in a row have read tickGesture
  landmarks,         \* the frame handed to the classifier
  detected,          \* what analyzeGesture returned for it
  proximity          \* what estimateHandProximity returned for it

vars ==
  <<cameraZ, velocityZ, scatterAmount, flowAmount, scaleMultiplier, particles,
    cameraPositionZ, meshes, latestGestureRef, gesture, gesturePending,
    gestureWrites, uploadedTextures, texturesPending, results, nResults,
    thrown, ticks, tickGesture, held, landmarks, detected, proximity>>

physicsVars ==
  <<cameraZ, velocityZ, scatterAmount, flowAmount, scaleMultiplier,
    cameraPositionZ, ticks, tickGesture, held>>

sceneVars == <<particles, meshes>>

gestureVars ==
  <<latestGestureRef, gesture, gesturePending, gestureWrites, results, nResults>>

textureVars == <<uploadedTextures, texturesPending>>

classifierVars == <<landmarks, detected, proximity>>

\* ------------------------------------------------------------------------
\* Bounds
\* ------------------------------------------------------------------------

\* runs of animate explored
MaxTicks == 32

\* results the pose source delivers while the physics runs
MaxResults == 1

\* results the pose source delivers for one frame
MaxDeliveries == 2

\* seeds the silhouette yields
NumSeeds == 2

\* textures one upload holds at most
MaxTextures == 3

\* runs of animate explored while the scene is rebuilt under it
SceneTicks == 2

\* runs of animate explored while the gesture changes more than once
HandTicks == 4

\* results the pose source delivers over those runs
HandResults == 2

\* results without a hand the pose source delivers after a gesture
MaxLosses == 1

\* ------------------------------------------------------------------------
\* src/components/ThreeScene.tsx: building the particle field
\* ------------------------------------------------------------------------

CANVAS_WIDTH == 800

CANVAS_HEIGHT == 300

PARTICLE_GAP == 2

PARTICLE_SIZE == (15 * Unit) \div 100

\* 'https://picsum.photos/64/64', the placeholder; uploads are 1, 2, ...
DefaultTexture == 0

\* values Math.random() returns, in units: 0, 0.5 and 0.999
RandomDraws == {0, Unit \div 2, Unit - 1}

\* outcomes of the three Math.random() calls that make one particle's vector
JitterDraws == {<<0, 0, 0>>, <<Unit - 1, 0, Unit \div 2>>}

\* (Math.random() - 0.5) * 0.5
Jitter(r) == RoundDiv((r - Unit \div 2) * (Unit \div 2), Unit)

\* the i-th bright pixel the scan meets (both coordinates on the scan's stride)
SeedPixel(i) ==
  [px |-> (PARTICLE_GAP * 99 * i) % CANVAS_WIDTH,
   py |-> (PARTICLE_GAP * 37 * i) % CANVAS_HEIGHT]

\* generateRawParticlePositions: nothing without a 2d context, else one raw
\* particle per bright pixel
generateRawParticlePositions(ctx, jitter) ==
  IF ~ctx THEN <<>>
  ELSE [i \in 1..NumSeeds |->
         [x |-> (SeedPixel(i).px - CANVAS_WIDTH \div 2) * PARTICLE_SIZE,
          y |-> (CANVAS_HEIGHT \div 2 - SeedPixel(i).py) * PARTICLE_SIZE,
          z |-> 0,
          vx |-> Jitter(jitter[i][1]),
          vy |-> Jitter(jitter[i][2]),
          vz |-> Jitter(jitter[i][3])]]

\* uploadedTextures.length > 0 ? uploadedTextures : [placeholder]
TexturesToUse(uploaded) == IF Len(uploaded) > 0 THEN uploaded ELSE <<DefaultTexture>>

\* Math.floor(Math.random() * texturesToUse.length)
MeshIndexOf(r, n) == (r * n) \div Unit

\* Distribute that numbers the particles across the groups, not within each
RECURSIVE DistributeAcross(_, _, _, _, _)
DistributeAcross(raw, random, n, i, perMesh) ==
  IF i > Len(raw) THEN <<>>
  ELSE <<[x |-> raw[i].x, y |-> raw[i].y, z |-> raw[i].z,
          vx |-> raw[i].vx, vy |-> raw[i].vy, vz |-> raw[i].vz,
          meshIndex |-> MeshIndexOf(random[i], n),
          instanceIndex |-> i - 1]>>
         \o DistributeAcross(raw, random, n, i + 1, perMesh)

\* rawParticles.forEach: the particles built from raw[i..], given how many
\* particles each group holds so far (perMesh[g + 1] for group g)
RECURSIVE Distribute(_, _, _, _, _)
Distribute(raw, random, n, i, perMesh) ==
  IF i > Len(raw) THEN <<>>
  ELSE LET meshIndex == MeshIndexOf(random[i], n)
           pushed == [perMesh EXCEPT ![meshIndex + 1] = @ + 1]
           p == [x |-> raw[i].x, y |-> raw[i].y, z |-> raw[i].z,
                 vx |-> raw[i].vx, vy |-> raw[i].vy, vz |-> raw[i].vz,
                 meshIndex |-> meshIndex,
                 instanceIndex |-> pushed[meshIndex + 1] - 1]
       IN  <<p>> \o Distribute(raw, random, n, i + 1, pushed)

\* finalParticles for a texture list of length n
FinalParticles(raw, random, n) ==
  Distribute(raw, random, n, 1, [g \in 1..n |-> 0])

\* particlesPerMesh[g].length
CountOf(ps, g) == Cardinality({i \in 1..Len(ps) : ps[i].meshIndex = g})

\* an instance matrix nothing has been written to
Unwritten == [written |-> FALSE]

\* InstancedMesh with room for one instance fewer than asked for
InstancedMeshShort(url, count) ==
  [map |-> url, count |-> count - 1,
   instanceMatrix |-> [k \in 1..(count - 1) |-> Unwritten]]

\* new THREE.InstancedMesh(geometry, material, count)
InstancedMesh(url, count) ==
  [map |-> url, count |-> count,
   instanceMatrix |-> [k \in 1..count |-> Unwritten]]

\* texturesToUse.forEach: the meshes of groups i.., empty groups skipped
RECURSIVE CreateMeshes(_, _, _)
CreateMeshes(textures, ps, i) ==
  IF i >= Len(textures) THEN <<>>
  ELSE LET count == CountOf(ps, i)
       IN  (IF count = 0 THEN <<>> ELSE <<InstancedMesh(textures[i + 1], count)>>)
             \o CreateMeshes(textures, ps, i + 1)

\* ------------------------------------------------------------------------
\* src/components/ThreeScene.tsx: animate
\* ------------------------------------------------------------------------

\* PHYSICS.PUSH_VELOCITY (0.8) taken for the force OPEN_PALM subtracts
PUSH_FORCE_AS_VELOCITY == (8 * Unit) \div 10

\* the force OPEN_PALM subtracts each run (0.05)
PUSH_FORCE == Unit \div 20

\* the damping factor applied each run (0.96)
DAMPING == (96 * Unit) \div 100

\* a smoothing factor above 1: the camera passes the distance it follows
CAMERA_SMOOTHING_PAST == (3 * Unit) \div 2

\* smoothing factors of the camera (0.1), the flow (0.015), the scatter
\* (0.05) and the scale (0.1)
CAMERA_SMOOTHING == Unit \div 10

FLOW_SMOOTHING == (15 * Unit) \div 1000

SCATTER_SMOOTHING == Unit \div 20

SCALE_SMOOTHING == Unit \div 10

\* the distance below which OPEN_PALM scatters (10)
SCATTER_NEAR == 10 * Unit

\* the amount below which an effect is not applied (0.001)
EPSILON == Unit \div 1000

\* the reach of the explosion along a particle's vector (50)
SCATTER_REACH == 50

\* a * f for a factor f in units
Mul(a, f) == RoundDiv(a * f, Unit)

\* Lerp with the sign of the step wrong: x moves away from y
LerpAway(x, y, t) == RoundDiv((Unit + t) * x - t * y, Unit)

\* THREE.MathUtils.lerp(x, y, t) = (1 - t) * x + t * y
Lerp(x, y, t) == RoundDiv((Unit - t) * x + t * y, Unit)

\* Forced with the two forces' signs exchanged
ForcedInward(v, g) ==
  IF g = FIST THEN v - PULL_ACCELERATION
  ELSE IF g = OPEN_PALM THEN v + PUSH_FORCE
  ELSE v

\* Forced with an else where the code has an else if: every gesture but
\* FIST pushes
ForcedAlways(v, g) ==
  IF g = FIST THEN v + PULL_ACCELERATION
  ELSE v - PUSH_FORCE

\* velocityZ once the gesture's force is added
Forced(v, g) ==
  IF g = FIST THEN v + PULL_ACCELERATION
  ELSE IF g = OPEN_PALM THEN v - PUSH_FORCE
  ELSE v

\* Damped that leaves the velocity as it is
Undamped(v) == v

\* velocityZ *= 0.96
Damped(v) == Mul(v, DAMPING)

\* Limited without the check against MIN_Z
LimitedAboveOnly(z, v) ==
  IF z > MAX_Z THEN [cameraZ |-> MAX_Z, velocityZ |-> 0]
  ELSE [cameraZ |-> z, velocityZ |-> v]

\* Limited that moves the camera onto the limit and keeps its velocity
LimitedKeepingVelocity(z, v) ==
  [cameraZ |-> Max(MIN_Z, Min(MAX_Z, z)), velocityZ |-> v]

\* the two limit checks, in the order animate makes them
Limited(z, v) ==
  LET high == IF z > MAX_Z THEN [cameraZ |-> MAX_Z, velocityZ |-> 0]
              ELSE [cameraZ |-> z, velocityZ |-> v]
  IN  IF high.cameraZ < MIN_Z THEN [cameraZ |-> MIN_Z, velocityZ |-> 0]
      ELSE high

\* the camera physics of one run: force, damping, move, limits
CameraStep(z, v, g) ==
  LET damped == Damped(Forced(v, g))
  IN  Limited(z + damped, damped)

\* the flow, scatter and scale targets of one run
FlowTarget(g) == IF g = OPEN_PALM THEN Unit ELSE 0

\* ScatterTarget without the test of the distance
ScatterTargetWhilePalm(z, g) == IF g = OPEN_PALM THEN Unit ELSE 0

\* shouldScatter ? 1 : 0, for the logical distance z
ScatterTarget(z, g) == IF z < SCATTER_NEAR /\ g = OPEN_PALM THEN Unit ELSE 0

ScaleTarget(g) == IF g = OK_SIGN THEN OK_SCALE_MULTIPLIER ELSE Unit

\* WrittenScale that writes the smoothed scaleMultiplier whatever the gesture
WrittenScaleSmoothed(g, scale) == scale

\* const s = (gesture === HandGesture.OK_SIGN) ? state.scaleMultiplier : 1
WrittenScale(g, scale) == IF g = OK_SIGN THEN scale ELSE Unit

\* values Date.now() * 0.001 takes, in seconds
Clock == {0, 7}

\* dummy.matrix for particle p: the scattered base position, what the wave
\* and the spin are computed from (when applied), and the scale
Transform(p, g, flow, scatter, scale, time) ==
  LET scattering == scatter > EPSILON
      push(v) == IF scattering THEN Mul(v * SCATTER_REACH, scatter) ELSE 0
  IN  [written |-> TRUE,
       x |-> p.x + push(p.vx),
       y |-> p.y + push(p.vy),
       z |-> p.z + push(p.vz),
       wave |-> IF flow > EPSILON THEN <<p.x, time, flow>> ELSE <<>>,
       spin |-> IF scattering THEN <<time, p.vx, p.vy, scatter>> ELSE <<>>,
       scale |-> WrittenScale(g, scale)]

\* SetMatrixAt that adds the position to the one the slot holds already
SetMatrixAtAccumulating(mesh, index, matrix) ==
  IF index < mesh.count
    THEN LET old == mesh.instanceMatrix[index + 1]
         IN  [mesh EXCEPT !.instanceMatrix[index + 1] =
                IF old.written
                  THEN [matrix EXCEPT !.x = @ + old.x, !.y = @ + old.y, !.z = @ + old.z]
                  ELSE matrix]
    ELSE mesh

\* mesh.setMatrixAt(index, matrix): a write past the mesh's count is dropped
SetMatrixAt(mesh, index, matrix) ==
  IF index < mesh.count
    THEN [mesh EXCEPT !.instanceMatrix[index + 1] = matrix]
    ELSE mesh

\* the loop over state.particles, from particle i on
RECURSIVE WriteParticles(_, _, _, _, _, _, _, _)
WriteParticles(ms, ps, i, g, flow, scatter, scale, time) ==
  IF i > Len(ps) THEN ms
  ELSE LET p == ps[i]
           next == IF p.meshIndex < Len(ms)
                     THEN [ms EXCEPT ![p.meshIndex + 1] =
                             SetMatrixAt(@, p.instanceIndex,
                                         Transform(p, g, flow, scatter, scale, time))]
                     ELSE ms
       IN  WriteParticles(next, ps, i + 1, g, flow, scatter, scale, time)

\* one run of animate; the scene's refs are set from mount on
Tick(time) ==
  LET g == latestGestureRef
      cam == CameraStep(cameraZ, velocityZ, g)
      flow == Lerp(flowAmount, FlowTarget(g), FLOW_SMOOTHING)
      scatter == Lerp(scatterAmount, ScatterTarget(cam.cameraZ, g), SCATTER_SMOOTHING)
      scale == Lerp(scaleMultiplier, ScaleTarget(g), SCALE_SMOOTHING)
  IN  /\ ticks < MaxTicks
      /\ velocityZ' = cam.velocityZ
      /\ cameraZ' = cam.cameraZ
      /\ cameraPositionZ' = Lerp(cameraPositionZ, cam.cameraZ, CAMERA_SMOOTHING)
      /\ flowAmount' = flow
      /\ scatterAmount' = scatter
      /\ scaleMultiplier' = scale
      /\ meshes' = WriteParticles(meshes, particles, 1, g, flow, scatter, scale, time)
      /\ ticks' = ticks + 1
      /\ tickGesture' = g
      /\ held' = IF ticks > 0 /\ g = tickGesture THEN held + 1 ELSE 1
      /\ UNCHANGED <<particles, gestureVars, textureVars, thrown, classifierVars>>

\* ------------------------------------------------------------------------
\* src/components/ThreeScene.tsx: the effects on [gesture] and
\* [uploadedTextures]
\* ------------------------------------------------------------------------

\* GestureEffect that runs without storing the gesture
GestureEffectStale ==
  /\ gesturePending
  /\ gesturePending' = FALSE
  /\ UNCHANGED <<physicsVars, sceneVars, latestGestureRef, gesture, gestureWrites,
                 results, nResults, textureVars, thrown, classifierVars>>

\* useEffect(() => { latestGestureRef.current = gesture; }, [gesture])
GestureEffect ==
  /\ gesturePending
  /\ latestGestureRef' = gesture
  /\ gesturePending' = FALSE
  /\ UNCHANGED <<physicsVars, sceneVars, gesture, gestureWrites, results, nResults,
                 textureVars, thrown, classifierVars>>

\* RebuildEffect that also starts the flow and the scatter over
RebuildEffectResetting(ctx, jitter, random) ==
  LET texturesToUse == TexturesToUse(uploadedTextures)
      rawParticles == generateRawParticlePositions(ctx, jitter)
      finalParticles == FinalParticles(rawParticles, random, Len(texturesToUse))
  IN  /\ texturesPending
      /\ particles' = finalParticles
      /\ meshes' = CreateMeshes(texturesToUse, finalParticles, 0)
      /\ texturesPending' = FALSE
      /\ flowAmount' = 0
      /\ scatterAmount' = 0
      /\ UNCHANGED <<cameraZ, velocityZ, scaleMultiplier, cameraPositionZ, ticks,
                     tickGesture, held, gestureVars, uploadedTextures, thrown,
                     classifierVars>>

\* RebuildEffect that stops after publishing the particles: meshesRef is
\* left as the cleanup emptied it
RebuildEffectParticlesOnly(ctx, jitter, random) ==
  LET texturesToUse == TexturesToUse(uploadedTextures)
      rawParticles == generateRawParticlePositions(ctx, jitter)
      finalParticles == FinalParticles(rawParticles, random, Len(texturesToUse))
  IN  /\ texturesPending
      /\ particles' = finalParticles
      /\ meshes' = <<>>
      /\ texturesPending' = FALSE
      /\ UNCHANGED <<physicsVars, gestureVars, uploadedTextures, thrown,
                     classifierVars>>

\* the effect that rebuilds particles and meshes; it runs to its end before
\* anything else does. ctx: the canvas gave a 2d context; jitter and random:
\* what Math.random() returned for each raw particle
RebuildEffect(ctx, jitter, random) ==
  LET texturesToUse == TexturesToUse(uploadedTextures)
      rawParticles == generateRawParticlePositions(ctx, jitter)
      finalParticles == FinalParticles(rawParticles, random, Len(texturesToUse))
  IN  /\ texturesPending
      /\ particles' = finalParticles
      /\ meshes' = CreateMeshes(texturesToUse, finalParticles, 0)
      /\ texturesPending' = FALSE
      /\ UNCHANGED <<physicsVars, gestureVars, uploadedTextures, thrown,
                     classifierVars>>

\* ------------------------------------------------------------------------
\* src/App.tsx
\* ------------------------------------------------------------------------

\* hands.onResults: classify the first hand, NONE when there is none; an
\* exception in the classifier leaves the state as it was
onResults(r) ==
  LET hands == r.multiHandLandmarks
      found == ~hands.isNull /\ Length(hands) > 0
      detectedGesture == IF found THEN analyzeGesture(At(hands, 0)) ELSE NONE
      failed == detectedGesture = TypeError
      set == IF failed THEN gesture ELSE detectedGesture
  IN  /\ results' = r
      /\ nResults' = nResults + 1
      /\ thrown' = failed
      /\ gesture' = set
      /\ gesturePending' = (gesturePending \/ set # gesture)
      /\ gestureWrites' = IF failed THEN gestureWrites ELSE gestureWrites \cup {detectedGesture}
      /\ UNCHANGED <<physicsVars, sceneVars, latestGestureRef, textureVars,
                     classifierVars>>

\* handleFileUpload with n > 0 files, once every file is read:
\* setUploadedTextures(images)
handleFileUpload(n) ==
  /\ n > 0
  /\ uploadedTextures' = [i \in 1..n |-> i]
  /\ texturesPending' = TRUE
  /\ UNCHANGED <<physicsVars, sceneVars, gestureVars, thrown, classifierVars>>

\* ------------------------------------------------------------------------
\* The classifier applied to the frame at hand
\* ------------------------------------------------------------------------

Classify ==
  /\ detected = Unset
  /\ detected' = analyzeGesture(landmarks)
  /\ thrown' = (detected' = TypeError)
  /\ UNCHANGED <<physicsVars, sceneVars, gestureVars, textureVars, landmarks,
                 proximity>>

\* the hand leaves the view: the next frame is null or empty
LoseHand(f) ==
  /\ ~IsEmptyFrame(landmarks)
  /\ IsEmptyFrame(f)
  /\ landmarks' = f
  /\ detected' = Unset
  /\ proximity' = <<>>
  /\ UNCHANGED <<physicsVars, sceneVars, gestureVars, textureVars, thrown>>

\* estimateHandProximity reads two joints with no guard
EstimateProximity ==
  /\ proximity = <<>>
  /\ IF landmarks.isNull \/ Length(landmarks) <= MIDDLE_MCP
       THEN thrown' = TRUE /\ proximity' = <<TypeError>>
       ELSE thrown' = FALSE /\ proximity' = <<estimateHandProximity(landmarks)>>
  /\ UNCHANGED <<physicsVars, sceneVars, gestureVars, textureVars, landmarks,
                 detected>>

\* ------------------------------------------------------------------------
\* Specifications
\* ------------------------------------------------------------------------

\* the values the components are constructed with, before any effect ran
Constructed ==
  /\ cameraZ = DEFAULT_Z
  /\ velocityZ = 0
  /\ scatterAmount = 0
  /\ flowAmount = 0
  /\ scaleMultiplier = Unit
  /\ cameraPositionZ = DEFAULT_Z
  /\ latestGestureRef = NONE
  /\ gesture = NONE
  /\ gesturePending = FALSE
  /\ gestureWrites = {}
  /\ uploadedTextures = <<>>
  /\ results = Results(Null)
  /\ nResults = 0
  /\ thrown = FALSE
  /\ ticks = 0
  /\ tickGesture = NONE
  /\ held = 0
  /\ detected = Unset
  /\ proximity = <<>>

\* the scene the mount builds when every Math.random() returns 0
MountParticles ==
  FinalParticles(
    generateRawParticlePositions(TRUE, [i \in 1..NumSeeds |-> <<0, 0, 0>>]),
    [i \in 1..NumSeeds |-> 0], 1)

\* the running scene: mounted, the first build done
Init ==
  /\ Constructed
  /\ particles = MountParticles
  /\ meshes = CreateMeshes(<<DefaultTexture>>, MountParticles, 0)
  /\ texturesPending = FALSE
  /\ landmarks = Null

SampleResults == NoHandResults \cup {Results(Array(<<f>>)) : f \in SampleFrames}

Next ==
  \/ \E time \in Clock : Tick(time)
  \/ nResults < MaxResults /\ \E r \in SampleResults : onResults(r)
  \/ GestureEffect

Spec == Init /\ [][Next]_vars

\* the particle field: from construction, the mount's build pending
InitBuild ==
  /\ Constructed
  /\ particles = <<>>
  /\ meshes = <<>>
  /\ texturesPending = TRUE
  /\ landmarks = Null

NextBuild ==
  \/ \E n \in 1..MaxTextures : handleFileUpload(n)
  \/ \E ctx \in BOOLEAN, jitter \in [1..NumSeeds -> JitterDraws],
        random \in [1..NumSeeds -> RandomDraws] : RebuildEffect(ctx, jitter, random)

SpecBuild == InitBuild /\ [][NextBuild]_vars

\* the classifier: one frame from the pose source, classified, measured and
\* delivered
InitGesture ==
  /\ Constructed
  /\ particles = <<>>
  /\ meshes = <<>>
  /\ texturesPending = TRUE
  /\ landmarks \in FrameInputs

NextGesture ==
  \/ Classify
  \/ EstimateProximity
  \/ \E f \in {Null, Array(<<>>)} : LoseHand(f)
  \/ /\ nResults < MaxDeliveries
     /\ \E r \in NoHandResults \cup {Results(Array(<<landmarks>>))} : onResults(r)
  \/ GestureEffect

SpecGesture == InitGesture /\ [][NextGesture]_vars

\* the running scene with uploads: animate, the pose source and the rebuilds
\* of the particle field in any order; each callback runs to its end
SceneResults ==
  {Results(Array(<<Frame([k \in 1..4 |-> "extended"], Pt(-300, 0), 300)>>))}

NextScene ==
  \/ ticks < SceneTicks /\ \E time \in Clock : Tick(time)
  \/ nResults < MaxResults /\ \E r \in SceneResults : onResults(r)
  \/ GestureEffect
  \/ \E n \in 1..MaxTextures : handleFileUpload(n)
  \/ \E ctx \in BOOLEAN, random \in [1..NumSeeds -> RandomDraws] :
       RebuildEffect(ctx, [i \in 1..NumSeeds |-> <<0, 0, 0>>], random)

SpecScene == Init /\ [][NextScene]_vars

\* the running scene while the hand goes from one gesture to another
NextHands ==
  \/ ticks < HandTicks /\ \E time \in Clock : Tick(time)
  \/ nResults < HandResults /\ \E r \in SampleResults : onResults(r)
  \/ GestureEffect

SpecHands == Init /\ [][NextHands]_vars

\* the running scene while the hand shows one gesture and then leaves the view
NextRelease ==
  \/ \E time \in Clock : Tick(time)
  \/ nResults = 0 /\ \E r \in SampleResults : onResults(r)
  \/ 0 < nResults /\ nResults <= MaxLosses /\ \E r \in NoHandResults : onResults(r)
  \/ GestureEffect

SpecRelease == Init /\ [][NextRelease]_vars

\* React runs the effect on [gesture] after every render that changed it
SpecHandsFair == SpecHands /\ WF_vars(GestureEffect)

\* ------------------------------------------------------------------------
\* Camera distance and velocity (C1 - C3)
\* ------------------------------------------------------------------------

\* C1: at the end of every run of animate, under any sequence of gestures,
\* the logical camera distance lies in [MIN_Z, MAX_Z].
C1_CameraWithinLimits == MIN_Z <= cameraZ /\ cameraZ <= MAX_Z

\* OPEN_PALM, held from the default distance, has run the camera into MIN_Z
C1_Witness == ticks > 0 /\ tickGesture = OPEN_PALM /\ cameraZ = MIN_Z

\* what animate's move would make of cameraZ before the limits are applied
Unlimited == cameraZ + Damped(Forced(velocityZ, latestGestureRef))

\* C2: a run of animate that moves the camera past a limit ends with the
\* camera on that limit and with velocityZ = 0.
C2_ClampZeroesVelocity ==
  [][(ticks' = ticks + 1 /\ (Unlimited > MAX_Z \/ Unlimited < MIN_Z))
       => (velocityZ' = 0 /\ cameraZ' = (IF Unlimited > MAX_Z THEN MAX_Z ELSE MIN_Z))]_vars

\* FIST has run the camera into MAX_Z, where the run before had left it moving
C2_Witness ==
  /\ ticks > 1
  /\ tickGesture = FIST
  /\ cameraZ = MAX_Z
  /\ velocityZ = 0
  /\ cameraPositionZ < MAX_Z

\* every run of animate so far has read FIST
OnlyFist == ticks > 0 /\ tickGesture = FIST /\ held = ticks

\* C3 as amended: from the default state, while every run reads FIST, the
\* camera distance grows with every run until it is MAX_Z, is MAX_Z after at
\* most 23 runs, and stays MAX_Z from then on.
C3_FistReachesMax ==
  [][(ticks' = ticks + 1 /\ tickGesture' = FIST /\ held' = ticks')
       => /\ cameraZ' >= cameraZ
          /\ cameraZ < MAX_Z => cameraZ' > cameraZ
          /\ ticks' >= 23 => cameraZ' = MAX_Z]_vars

\* FIST alone has been read, and the camera has arrived at MAX_Z and stayed
C3_Witness == OnlyFist /\ ticks >= 26 /\ cameraZ = MAX_Z

\* C3 as claimed: from the default state, while every run reads FIST, the
\* camera distance is below the default and is MIN_Z after at most 23 runs.
C3_FistReachesMin ==
  OnlyFist => (cameraZ < DEFAULT_Z /\ (ticks >= 23 => cameraZ = MIN_Z))

\* ------------------------------------------------------------------------
\* Flow and scatter (C4)
\* ------------------------------------------------------------------------

\* C4: at the end of every run of animate, under any sequence of gestures,
\* flowAmount and scatterAmount lie in [0, 1].
C4_AmountsWithinUnit ==
  /\ 0 <= flowAmount /\ flowAmount <= Unit
  /\ 0 <= scatterAmount /\ scatterAmount <= Unit

\* both amounts are on their way to 1
C4_Witness == ticks > 0 /\ flowAmount > Unit \div 4 /\ scatterAmount > Unit \div 4

\* ------------------------------------------------------------------------
\* The classifier (C5 - C9)
\* ------------------------------------------------------------------------

\* the squared distance of two landmarks, exact
SquaredDistance(p1, p2) ==
  (p1.x - p2.x) * (p1.x - p2.x) + (p1.y - p2.y) * (p1.y - p2.y)

\* the frame at hand holds all 21 landmarks
FullFrame == ~landmarks.isNull /\ Length(landmarks) = PINKY_TIP + 1

\* in the frame at hand, the fingertip is farther from the wrist than the
\* finger's PIP joint / nearer to the wrist than it
TipBeyondPip(fingerName) ==
  SquaredDistance(At(landmarks, WRIST), At(landmarks, TipIndex(fingerName)))
    > SquaredDistance(At(landmarks, WRIST), At(landmarks, PipIndex(fingerName)))

TipWithinPip(fingerName) ==
  SquaredDistance(At(landmarks, WRIST), At(landmarks, TipIndex(fingerName)))
    < SquaredDistance(At(landmarks, WRIST), At(landmarks, PipIndex(fingerName)))

\* in the frame at hand, thumb tip and index tip are less than 0.05 apart
Pinched ==
  SquaredDistance(At(landmarks, THUMB_TIP), At(landmarks, INDEX_TIP))
    < OK_PINCH_THRESHOLD * OK_PINCH_THRESHOLD

\* C5: a 21-landmark frame with the thumb tip less than 0.05 from the index
\* tip and middle, ring and pinky extended is classified OK_SIGN, whether or
\* not the index finger is extended.
C5_PinchIsOkSign ==
  (detected # Unset /\ FullFrame /\ Pinched /\ TipBeyondPip("MIDDLE")
     /\ TipBeyondPip("RING") /\ TipBeyondPip("PINKY"))
    => detected = OK_SIGN

\* a pinched frame with all four fingers extended, an open palm but for the
\* pinch, has been classified
C5_Witness ==
  /\ detected = OK_SIGN
  /\ FullFrame /\ Pinched
  /\ \A k \in 1..4 : TipBeyondPip(Fingers[k])

\* C6: a 21-landmark frame with each of the four fingertips nearer to the
\* wrist than its PIP joint is classified FIST, wherever the thumb is.
C6_CurledIsFist ==
  (detected # Unset /\ FullFrame /\ \A k \in 1..4 : TipWithinPip(Fingers[k]))
    => detected = FIST

\* a fist with the thumb tip on the index tip has been classified
C6_Witness ==
  /\ detected = FIST
  /\ FullFrame /\ Pinched
  /\ \A k \in 1..4 : TipWithinPip(Fingers[k])

\* C7: a 21-landmark frame with all four fingers extended and the thumb tip
\* at least 0.05 from the index tip is classified OPEN_PALM.
C7_ExtendedIsOpenPalm ==
  (detected # Unset /\ FullFrame /\ ~Pinched /\ \A k \in 1..4 : TipBeyondPip(Fingers[k]))
    => detected = OPEN_PALM

\* an open hand with the thumb tip exactly 0.05 from the index tip has been
\* classified
C7_Witness ==
  /\ detected = OPEN_PALM
  /\ FullFrame
  /\ SquaredDistance(At(landmarks, THUMB_TIP), At(landmarks, INDEX_TIP))
       = OK_PINCH_THRESHOLD * OK_PINCH_THRESHOLD
  /\ \A k \in 1..4 : TipBeyondPip(Fingers[k])

\* C8: analyzeGesture returns NONE, and throws nothing, for a null or empty
\* frame; and results that report no hand leave the gesture NONE.
C8_EmptyIsNone ==
  /\ (detected # Unset /\ (landmarks.isNull \/ Length(landmarks) = 0))
       => detected = NONE
  /\ (nResults > 0 /\ results \in NoHandResults) => gesture = NONE

\* results with no hand have arrived after results with a hand, and an
\* empty frame has been classified
C8_Witness ==
  /\ nResults > 1
  /\ results \in NoHandResults
  /\ latestGestureRef # NONE
  /\ gesture = NONE
  /\ detected = NONE
  /\ landmarks.isNull

\* the wrist to middle-MCP distance of the frame at hand, exact
PalmSize ==
  CHOOSE d \in 0..(2 * Unit) :
    d * d = SquaredDistance(At(landmarks, WRIST), At(landmarks, MIDDLE_MCP))

\* the frame at hand with the middle MCP joint at distance d from the wrist
WithPalmSize(d) ==
  Array([landmarks.items EXCEPT ![MIDDLE_MCP + 1] = Pt(WristPoint.x, WristPoint.y - d)])

\* C9: estimateHandProximity returns a value in [0, 1]: 0 for a palm size d
\* of at most 0.1, 1 for d of at least 0.5, (d - 0.1) / 0.4 (to the grid's
\* rounding) in between, and no smaller for a larger d.
C9_ProximityRemap ==
  (proximity # <<>> /\ FullFrame) =>
    LET score == proximity[1]
        d == PalmSize
    IN  /\ 0 <= score /\ score <= Unit
        /\ d <= PALM_FAR => score = 0
        /\ d >= PALM_FAR + PALM_SPAN => score = Unit
        /\ (PALM_FAR < d /\ d < PALM_FAR + PALM_SPAN)
             => 2 * Abs(PALM_SPAN * score - Unit * (d - PALM_FAR)) <= PALM_SPAN
        /\ \A d2 \in PalmSizes :
             /\ d2 >= d => estimateHandProximity(WithPalmSize(d2)) >= score
             /\ d2 <= d => estimateHandProximity(WithPalmSize(d2)) <= score

\* a palm size strictly inside the remap domain has been scored
C9_Witness ==
  /\ proximity # <<>> /\ FullFrame
  /\ PALM_FAR < PalmSize /\ PalmSize < PALM_FAR + PALM_SPAN
  /\ 0 < proximity[1] /\ proximity[1] < Unit

\* ------------------------------------------------------------------------
\* The particle field (C10)
\* ------------------------------------------------------------------------

\* the instanceIndex values of the particles of group g
SlotsOf(g) == {particles[i].instanceIndex : i \in {j \in 1..Len(particles) : particles[j].meshIndex = g}}

\* C10: whatever the texture set and the random assignment, no two
\* particles share (meshIndex, instanceIndex), and the instanceIndex values
\* of each group are exactly 0 .. count - 1.
C10_SlotsUniqueAndDense ==
  /\ \A i, j \in 1..Len(particles) :
       (i # j /\ particles[i].meshIndex = particles[j].meshIndex)
         => particles[i].instanceIndex # particles[j].instanceIndex
  /\ \A i \in 1..Len(particles) :
       LET members == {j \in 1..Len(particles) : particles[j].meshIndex = particles[i].meshIndex}
       IN  SlotsOf(particles[i].meshIndex) = 0..(Cardinality(members) - 1)

\* a build for several textures that put two particles in one group and
\* left the first group empty
C10_Witness ==
  /\ ~texturesPending
  /\ Len(uploadedTextures) > 1
  /\ \E i, j \in 1..Len(particles) :
       /\ i # j
       /\ particles[i].meshIndex = particles[j].meshIndex
       /\ particles[i].meshIndex > 0

\* ------------------------------------------------------------------------
\* The build for an empty texture set (C11)
\* ------------------------------------------------------------------------

\* C11: a build for zero uploaded textures that yields at least one
\* particle makes exactly one mesh; it carries the default placeholder
\* texture, it is not empty, and every particle has its slot in it.
C11_DefaultTextureOneBatch ==
  (~texturesPending /\ uploadedTextures = <<>> /\ Len(particles) > 0)
    => /\ Len(meshes) = 1
       /\ meshes[1].map = DefaultTexture
       /\ meshes[1].count > 0
       /\ meshes[1].count = Len(particles)
       /\ \A i \in 1..Len(particles) :
            /\ particles[i].meshIndex = 0
            /\ particles[i].instanceIndex < meshes[1].count

\* the mount's build, with no upload, has placed every seed
C11_Witness ==
  /\ ~texturesPending
  /\ uploadedTextures = <<>>
  /\ Len(particles) = NumSeeds
  /\ Len(meshes) = 1

\* ------------------------------------------------------------------------
\* The scale written for the particles (C12)
\* ------------------------------------------------------------------------

\* the matrix particle i has in the meshes ms
MatrixOf(ms, i) ==
  ms[particles[i].meshIndex + 1].instanceMatrix[particles[i].instanceIndex + 1]

\* C12: a run of animate that read a gesture other than OK_SIGN writes the
\* scale 1 for every particle, also while scaleMultiplier is above 1, where
\* it only moves toward 1 and stays above it; a run that read OK_SIGN
\* writes the scaleMultiplier it has just smoothed.
C12_WrittenScale ==
  [][ticks' = ticks + 1
       => /\ \A i \in 1..Len(particles) :
               /\ MatrixOf(meshes', i).written
               /\ MatrixOf(meshes', i).scale =
                    IF tickGesture' = OK_SIGN THEN scaleMultiplier' ELSE Unit
          /\ (tickGesture' # OK_SIGN /\ scaleMultiplier > Unit)
               => (Unit < scaleMultiplier' /\ scaleMultiplier' <= scaleMultiplier)]_vars

\* the first run after the gesture went from OK_SIGN to another one:
\* scaleMultiplier is still above 1 and the particles carry the scale 1
C12_Witness ==
  /\ ticks > 1
  /\ held = 1
  /\ tickGesture # OK_SIGN
  /\ scaleMultiplier > Unit
  /\ Len(particles) > 0
  /\ \A i \in 1..Len(particles) : MatrixOf(meshes, i).scale = Unit

\* ------------------------------------------------------------------------
\* The mesh a particle is written to (C13)
\* ------------------------------------------------------------------------

\* mesh m holds, at the slot of particle p, a matrix this run of animate
\* computed for p
HoldsTransformOf(m, p) ==
  /\ p.instanceIndex < m.count
  /\ \E time \in Clock :
       m.instanceMatrix[p.instanceIndex + 1] =
         Transform(p, tickGesture', flowAmount', scatterAmount', scaleMultiplier', time)

\* C13: whatever the texture set and the random assignment, empty groups
\* included, a run of animate over a finished build writes every particle's
\* matrix into the mesh created for the texture of the particle's group, at
\* the particle's instanceIndex, below that mesh's count.
C13_WritesOwnBatch ==
  [][(ticks' = ticks + 1 /\ ~texturesPending)
       => \A i \in 1..Len(particles) :
            \E k \in 1..Len(meshes') :
              /\ meshes'[k].map = TexturesToUse(uploadedTextures)[particles[i].meshIndex + 1]
              /\ HoldsTransformOf(meshes'[k], particles[i])]_vars

\* ------------------------------------------------------------------------
\* Rebuilds between runs of animate (C14)
\* ------------------------------------------------------------------------

\* the groups that hold a particle
GroupsBuilt == {particles[i].meshIndex : i \in 1..Len(particles)}

\* C14: however runs of animate, uploads and rebuilds follow each other,
\* the particles and the meshes animate finds come from one finished build:
\* there is one mesh per group that holds a particle, in the order of the
\* groups, with that group's texture and a full set of instance matrices,
\* one per particle of the group.
C14_SceneFromOneBuild ==
  /\ Len(meshes) = Cardinality(GroupsBuilt)
  /\ \A g \in GroupsBuilt :
       LET k == Cardinality({h \in GroupsBuilt : h <= g})
       IN  /\ meshes[k].count = CountOf(particles, g)
           /\ DOMAIN meshes[k].instanceMatrix = 1..meshes[k].count
           /\ meshes[k].map \in {g + 1} \cup (IF g = 0 THEN {DefaultTexture} ELSE {})

\* animate has written into both meshes of a rebuild for several textures
C14_Witness ==
  /\ ticks > 0
  /\ ~texturesPending
  /\ Len(uploadedTextures) > 1
  /\ Len(meshes) = 2
  /\ \A k \in 1..Len(meshes) :
       /\ meshes[k].map # DefaultTexture
       /\ \E j \in 1..meshes[k].count : meshes[k].instanceMatrix[j].written

\* ------------------------------------------------------------------------
\* The gesture handed from the classifier to animate (C15)
\* ------------------------------------------------------------------------

\* C15: latestGestureRef starts as NONE; it changes only when the effect
\* stores the gesture that onResults set; a run of animate reads it once and
\* leaves it alone; what a run reads is NONE or a value setGesture was
\* called with before; and once the classifier stops writing, from some
\* point on latestGestureRef, which every later run reads, is its last
\* write.
C15_GestureCell ==
  /\ latestGestureRef = NONE /\ gestureWrites = {}
  /\ [](/\ tickGesture \in {NONE} \cup gestureWrites
        /\ latestGestureRef \in {NONE} \cup gestureWrites)
  /\ [][(latestGestureRef' # latestGestureRef
            => (gesturePending /\ latestGestureRef' = gesture /\ ticks' = ticks))
         /\ (gesture' # gesture
               => (nResults' = nResults + 1 /\ gesture' \in gestureWrites'))
         /\ (ticks' = ticks + 1
               => (tickGesture' = latestGestureRef
                   /\ latestGestureRef' = latestGestureRef))]_vars
  /\ <>[](latestGestureRef = gesture)

\* after two different writes a run of animate has read the last one
C15_Witness ==
  /\ ticks > 0
  /\ Cardinality(gestureWrites) >= 2
  /\ nResults = HandResults
  /\ ~gesturePending
  /\ tickGesture = gesture
  /\ tickGesture # NONE

\* ------------------------------------------------------------------------
\* A run of animate with no gesture (C16)
\* ------------------------------------------------------------------------

\* the values stateRef is constructed with
AtDefaults ==
  /\ cameraZ = DEFAULT_Z
  /\ velocityZ = 0
  /\ flowAmount = 0
  /\ scatterAmount = 0
  /\ scaleMultiplier = Unit

\* C16: a run of animate that read NONE adds no force: the magnitude of
\* velocityZ does not grow, flowAmount and scatterAmount do not grow and
\* stay at or above 0, scaleMultiplier does not move away from 1; from the
\* constructed values the run leaves all five where they were.
C16_NoneAppliesNoForce ==
  [][(ticks' = ticks + 1 /\ tickGesture' = NONE)
       => /\ Abs(velocityZ') <= Abs(velocityZ)
          /\ 0 <= flowAmount' /\ flowAmount' <= flowAmount
          /\ 0 <= scatterAmount' /\ scatterAmount' <= scatterAmount
          /\ Unit <= scaleMultiplier' /\ scaleMultiplier' <= scaleMultiplier
          /\ AtDefaults => AtDefaults']_vars

\* the hand left the view while the camera was moving and the particles
\* were flowing and scattering; animate has run since
C16_Witness ==
  /\ ticks > 0
  /\ tickGesture = NONE
  /\ velocityZ # 0
  /\ flowAmount > 0
  /\ scatterAmount > 0

\* ------------------------------------------------------------------------
\* Sustained OPEN_PALM (C17)
\* ------------------------------------------------------------------------

\* C17 as the specification states it: while every run of animate since
\* construction reads OPEN_PALM, cameraZ never decreases from one run to
\* the next, and OPEN_PALM's force is the smaller one.
C17_PalmNeverDecreases ==
  [][(ticks' = ticks + 1 /\ tickGesture' = OPEN_PALM /\ held' = ticks')
       => (cameraZ' >= cameraZ /\ PUSH_FORCE < PULL_ACCELERATION)]_vars

\* C17, amended: a run of animate that reads OPEN_PALM with the camera at
\* rest or already moving inward moves it inward: cameraZ does not
\* increase, it decreases unless it is at MIN_Z already, and velocityZ stays
\* at or below 0, so this holds for every run while OPEN_PALM is held;
\* OPEN_PALM's force is smaller than FIST's.
C17_PalmNeverIncreases ==
  [][(ticks' = ticks + 1 /\ tickGesture' = OPEN_PALM /\ velocityZ <= 0)
       => /\ cameraZ' <= cameraZ
          /\ cameraZ > MIN_Z => cameraZ' < cameraZ
          /\ velocityZ' <= 0
          /\ 0 < PUSH_FORCE /\ PUSH_FORCE < PULL_ACCELERATION]_vars

\* OPEN_PALM, read by every run since construction, has moved the camera
\* inward from DEFAULT_Z and it is still moving
C17_Witness ==
  /\ ticks > 1
  /\ tickGesture = OPEN_PALM
  /\ held = ticks
  /\ MIN_Z < cameraZ /\ cameraZ < DEFAULT_Z
  /\ velocityZ < 0

\* ------------------------------------------------------------------------
\* What scatterAmount is smoothed toward (C18)
\* ------------------------------------------------------------------------

\* C18 as the specification states it: every run of animate smooths
\* scatterAmount toward 1 exactly when it read OPEN_PALM and the rendered
\* distance, camera.position.z as the run has just smoothed it, is below
\* the near threshold, and toward 0 otherwise.
C18_ScatterByRenderedDistance ==
  [][ticks' = ticks + 1
       => scatterAmount' =
            Lerp(scatterAmount,
                 IF tickGesture' = OPEN_PALM /\ cameraPositionZ' < SCATTER_NEAR
                   THEN Unit ELSE 0,
                 SCATTER_SMOOTHING)]_vars

\* C18, amended: every run of animate smooths scatterAmount toward 1
\* exactly when it read OPEN_PALM and the logical distance cameraZ, as the
\* run has just moved and limited it, is below the near threshold, and
\* toward 0 otherwise; the rendered distance plays no part.
C18_ScatterByLogicalDistance ==
  [][ticks' = ticks + 1
       => scatterAmount' =
            Lerp(scatterAmount,
                 IF tickGesture' = OPEN_PALM /\ cameraZ' < SCATTER_NEAR
                   THEN Unit ELSE 0,
                 SCATTER_SMOOTHING)]_vars

\* the particles scatter while the logical distance is below the threshold
\* and the rendered distance is not
C18_Witness ==
  /\ ticks > 0
  /\ tickGesture = OPEN_PALM
  /\ cameraZ < SCATTER_NEAR
  /\ cameraPositionZ >= SCATTER_NEAR
  /\ scatterAmount > 0

\* ------------------------------------------------------------------------
\* The damping and the velocity it bounds (C19)
\* ------------------------------------------------------------------------

\* a * d / (1 - d) for the larger force a and the damping factor d: 2.4
TerminalVelocity ==
  (Max(PULL_ACCELERATION, PUSH_FORCE) * DAMPING) \div (Unit - DAMPING)

\* C19: every run of animate, whatever gesture it read, leaves a velocityZ
\* whose magnitude is at most the damping factor times the magnitude of the
\* old velocity with the gesture's force added (up to rounding), and at
\* most a * d / (1 - d).
C19_VelocityBounded ==
  [][ticks' = ticks + 1
       => /\ DAMPING < Unit
          /\ 2 * Unit * Abs(velocityZ')
               <= 2 * DAMPING * Abs(Forced(velocityZ, tickGesture')) + Unit
          /\ Abs(velocityZ') <= TerminalVelocity]_vars

\* FIST has driven the camera to more than one unit of distance per run
C19_Witness ==
  /\ ticks > 0
  /\ tickGesture = FIST
  /\ velocityZ > Unit
  /\ velocityZ <= TerminalVelocity

\* ------------------------------------------------------------------------
\* What a rebuild leaves alone (C20)
\* ------------------------------------------------------------------------

\* C20: the rebuild that follows an upload leaves cameraZ, velocityZ,
\* flowAmount, scatterAmount and scaleMultiplier, and with them the rendered
\* distance, the gesture and the uploaded textures, as they were.
C20_RebuildKeepsPhysics ==
  [][(texturesPending /\ ~texturesPending')
       => /\ UNCHANGED <<cameraZ, velocityZ, flowAmount, scatterAmount, scaleMultiplier>>
          /\ UNCHANGED <<cameraPositionZ, latestGestureRef, gesture, uploadedTextures>>]_vars

\* a rebuild for an upload has run while the camera was moving and the
\* particles were flowing: every group has its mesh and animate has not
\* written to any of them yet
C20_Witness ==
  /\ ~texturesPending
  /\ Len(uploadedTextures) > 0
  /\ Len(particles) > 0
  /\ Len(meshes) = Len(uploadedTextures)
  /\ \A k \in 1..Len(meshes) :
       \A j \in 1..meshes[k].count : ~meshes[k].instanceMatrix[j].written
  /\ velocityZ # 0
  /\ cameraZ # DEFAULT_Z
  /\ flowAmount > 0

\* ------------------------------------------------------------------------
\* What a run of animate leaves of the particles (C21)
\* ------------------------------------------------------------------------

\* C21: a run of animate leaves state.particles, every field of every
\* particle and their number, as it was, and keeps the meshes' textures and
\* counts; the particles change only in the rebuild that follows an upload
\* or the mount; and every matrix the run writes is the one computed from a
\* particle with that instanceIndex, the amounts the run has just smoothed,
\* the gesture it read and the clock, whatever the slot held before.
C21_TickKeepsParticles ==
  [][/\ ticks' = ticks + 1
          => /\ particles' = particles
             /\ Len(meshes') = Len(meshes)
             /\ \A k \in 1..Len(meshes) :
                  /\ meshes'[k].map = meshes[k].map
                  /\ meshes'[k].count = meshes[k].count
                  /\ \A j \in 1..meshes[k].count :
                       meshes'[k].instanceMatrix[j] # meshes[k].instanceMatrix[j]
                         => \E i \in 1..Len(particles), time \in Clock :
                              /\ particles[i].instanceIndex + 1 = j
                              /\ meshes'[k].instanceMatrix[j] =
                                   Transform(particles[i], tickGesture', flowAmount',
                                             scatterAmount', scaleMultiplier', time)
     /\ particles' # particles
          => (texturesPending /\ ~texturesPending' /\ ticks' = ticks)]_vars

\* animate has run twice and has written the matrices of flowing particles
\* into the mesh of a rebuild for an upload
C21_Witness ==
  /\ ticks = SceneTicks
  /\ ~texturesPending
  /\ Len(uploadedTextures) > 0
  /\ Len(particles) = NumSeeds
  /\ flowAmount > EPSILON
  /\ \E k \in 1..Len(meshes) :
       /\ meshes[k].map # DefaultTexture
       /\ \E j \in 1..meshes[k].count :
            /\ meshes[k].instanceMatrix[j].written
            /\ meshes[k].instanceMatrix[j].wave # <<>>

\* ------------------------------------------------------------------------
\* The rendered distance (C22)
\* ------------------------------------------------------------------------

\* C22: camera.position.z starts at DEFAULT_Z and is within [MIN_Z, MAX_Z]
\* after every run of animate, whatever the gestures; in a run that read
\* NONE it ends between where it was and the cameraZ the run arrived at,
\* never past it, and its distance to that cameraZ shrinks to nine tenths
\* (up to rounding).
C22_RenderedDistance ==
  /\ cameraPositionZ = DEFAULT_Z
  /\ [](MIN_Z <= cameraPositionZ /\ cameraPositionZ <= MAX_Z)
  /\ [][(ticks' = ticks + 1 /\ tickGesture' = NONE)
          => /\ Min(cameraPositionZ, cameraZ') <= cameraPositionZ'
             /\ cameraPositionZ' <= Max(cameraPositionZ, cameraZ')
             /\ 10 * Abs(cameraPositionZ' - cameraZ')
                  <= 9 * Abs(cameraPositionZ - cameraZ') + 5]_vars

\* the hand has left the view with the camera away from DEFAULT_Z: the
\* rendered distance has moved and is still behind the logical one
C22_Witness ==
  /\ tickGesture = NONE
  /\ held > 1
  /\ cameraZ # DEFAULT_Z
  /\ cameraPositionZ # DEFAULT_Z
  /\ cameraPositionZ # cameraZ
  /\ Abs(cameraPositionZ - cameraZ) > Unit

====
